---- MODULE Spec2Model ----
(***************************************************************************)
(* Model of src/components/World/Environment.tsx: the scrolling            *)
(* environment (StarField, MovingGrid, LaneGuides, RetroSun).              *)
(*                                                                         *)
(* Numbers are exact fixed-point integers:                                 *)
(*   speed   in 1/SpeedScale units per second,                             *)
(*   time    in 1/TimeScale seconds,                                       *)
(*   lengths in 1/PosScale units, PosScale = SpeedScale * TimeScale,       *)
(* so that speed * time is a length without rounding.  Floating-point      *)
(* rounding of the JavaScript and GLSL arithmetic is not modelled.         *)
(***************************************************************************)
EXTENDS Integers, Sequences, FiniteSets

SpeedScale == 2
TimeScale == 5
PosScale == SpeedScale * TimeScale

\* ------------------------------------------------------------------ bounds
MaxFrames == 3
MaxLanes == 6
\* Math.random() returns r / RandDen, r \in 0 .. RandDen - 1
RandDen == 6000

\* store.speed values the gameplay system may set: -0.5, 0, 2.5, 5.0
Speeds == {-1, 0, 5, 10}
\* frame deltas handed in by the frame driver: 0 s, 1 s, 140 s
Deltas == {0, 5, 700}

None == "none"

\* --------------------------------------------------------------- arithmetic
\* GLSL abs(x)
Abs(n) == IF n < 0 THEN -n ELSE n

\* JavaScript a % b: the remainder takes the sign of the dividend
JsRem(a, b) == IF a >= 0 THEN a % b ELSE -((-a) % b)

\* GLSL mod(x, y) = x - y * floor(x / y); \div is the floor division
GlslModTrunc(x, y) == IF x >= 0 THEN x % y ELSE -((-x) % y)
GlslMod(x, y) == x - y * (x \div y)

\* ---------------------------------------------------------------- constants
\* float range = 700.0;
rangeShort == 600 * PosScale
range == 700 * PosScale
\* const cellSize = 10;
cellSize == 10 * PosScale
\* values of the imported LANE_WIDTH: 2.2 and 4 units
LaneWidths == {22, 4 * PosScale}

\* -------------------------------------------------------------------- state
VARIABLES
  storeSpeed,      \* useStore: state.speed, written by the gameplay system
  storeLaneCount,  \* useStore: state.laneCount
  frames,          \* frames started so far
  elapsedTime,     \* state.clock.elapsedTime
  delta,           \* the delta of the frame in progress (or of the last one)
  tickSpeed,       \* state.speed of the store when that frame began
  pc,              \* position of the frame loop
  starSpeed,       \* StarField: const speed (value of the last render)
  materialRef,     \* StarField: materialRef.current # null
  uTime,           \* StarField: uniforms.uTime.value
  uSpeed,          \* StarField: uniforms.uSpeed.value
  positions,       \* StarField: one vertex of the position attribute
  rendered,        \* <<the vertex shader's pos for that vertex in the last draw>>
  prevRendered,    \* the same, one draw earlier
  gridSpeed,       \* MovingGrid: const speed (value of the last render)
  meshRef,         \* MovingGrid: meshRef.current # null
  offsetRef,       \* MovingGrid: offsetRef.current
  mesh,            \* MovingGrid: the mesh's position and rotation
  activeSpeed,     \* MovingGrid: const activeSpeed of the last callback
  prevOffset,      \* offsetRef.current before the last MovingGrid callback
  starRead,        \* <<the speed the StarField callback read in this frame>>
  gridRead,        \* <<the speed the MovingGrid callback read in this frame>>
  laneWidth,       \* LANE_WIDTH, imported from '../../types'
  lgLaneCount,     \* LaneGuides: laneCount of the last render
  separators,      \* LaneGuides: the memoised separators
  matRef,          \* RetroSun: matRef.current # null
  sunGroupRef,     \* RetroSun: sunGroupRef.current # null
  sunUTime,        \* RetroSun: uniforms.uTime.value
  sunGroup         \* RetroSun: group position.y (as the argument of sin) and rotation.y

storeVars == <<storeSpeed, storeLaneCount>>
clockVars == <<frames, elapsedTime, delta, tickSpeed>>
starVars == <<starSpeed, materialRef, uTime, uSpeed, positions, starRead>>
drawVars == <<rendered, prevRendered>>
gridVars == <<gridSpeed, meshRef, offsetRef, mesh, activeSpeed, prevOffset, gridRead>>
laneVars == <<laneWidth, lgLaneCount, separators>>
sunVars == <<matRef, sunGroupRef, sunUTime, sunGroup>>
vars == <<storeVars, clockVars, pc, starVars, drawVars, gridVars, laneVars, sunVars>>

\* ---------------------------------------------------------------- StarField
\* pos[i*3] = (Math.random() - 0.5) * 600, with Math.random() = r / RandDen
PositionX(r) == ((2 * r - RandDen) * 600 * PosScale) \div (2 * RandDen)
\* pos[i*3+1] = (Math.random() - 0.5) * 400
PositionY(r) == ((2 * r - RandDen) * 400 * PosScale) \div (2 * RandDen)
\* pos[i*3+2] = -Math.random() * 600
PositionZ(r) == -((r * 600 * PosScale) \div RandDen)

\* the three Math.random() draws of one particle
RandomDraws ==
  { <<3000, 3000, 0>>,     \* ( 0,    0,     0)    on the axis
    <<3199, 2853, 1>>,     \* ( 19.9, -9.8,  -0.1) just inside the zone
    <<2801, 3447, 3000>>,  \* (-19.9, 29.8, -300)  just inside the zone
    <<3200, 3000, 5999>>,  \* ( 20,    0,  -599.9) on the x boundary
    <<2800, 3000, 1000>>,  \* (-20,    0,  -100)   on the x boundary
    <<3000, 2850, 3500>>,  \* ( 0,   -10,  -350)   on the lower y boundary
    <<3000, 3450, 5000>>,  \* ( 0,    30,  -500)   on the upper y boundary
    <<0, 0, 5999>>,        \* (-300, -200, -599.9) far corner
    <<5999, 5997, 2000>> } \* ( 299.9, 199.8, -200)

Particle(d) == [x |-> PositionX(d[1]), y |-> PositionY(d[2]), z |-> PositionZ(d[3])]

\* speed > 0 ? speed : 5.0
StarEffectiveSpeedGE(speed) == IF speed >= 0 THEN speed ELSE 5 * SpeedScale
StarEffectiveSpeed(speed) == IF speed > 0 THEN speed ELSE 5 * SpeedScale

\* float zOffset = uTime * uSpeed;
ZOffset(time, speed) == time * speed

\* pos.z += zOffset; pos.z = mod(pos.z, range) - 600.0;
WrapDepthFullRange(z, zOffset) == GlslMod(z + zOffset, range) - range
WrapDepth(z, zOffset) == GlslMod(z + zOffset, range) - 600 * PosScale

\* if (abs(pos.x) < 20.0 && pos.y > -10.0 && pos.y < 30.0)
InTunnelInclusive(x, y) ==
  Abs(x) <= 20 * PosScale /\ y >= -10 * PosScale /\ y <= 30 * PosScale
InTunnel(x, y) == Abs(x) < 20 * PosScale /\ y > -10 * PosScale /\ y < 30 * PosScale

\* pos.y += 50.0 inside the tunnel
AvoidTunnel(x, y) == IF InTunnel(x, y) THEN y + 50 * PosScale ELSE y

\* the vertex shader's pos for one vertex, with its local zOffset and the
\* uniforms it read
VertexShader(p, time, speed) ==
  [x |-> p.x,
   y |-> AvoidTunnel(p.x, p.y),
   z |-> WrapDepth(p.z, ZOffset(time, speed)),
   zOffset |-> ZOffset(time, speed),
   uTime |-> time,
   uSpeed |-> speed]

\* --------------------------------------------------------------- MovingGrid
\* const activeSpeed = speed > 0 ? speed : 5;
ActiveSpeedNoFallback(speed) == speed
ActiveSpeed(speed) == IF speed > 0 THEN speed ELSE 5 * SpeedScale

\* const zPos = -100 + (offsetRef.current % cellSize);
ZPosNoWrap(offset) == -100 * PosScale + offset
ZPos(offset) == -100 * PosScale + JsRem(offset, cellSize)

\* --------------------------------------------------------------- LaneGuides
\* const startX = -(laneCount * LANE_WIDTH) / 2;
StartXNoHalf(laneCount, width) == -(laneCount * width)
StartX(laneCount, width) == -((laneCount * width) \div 2)

\* for (let i = 0; i <= laneCount; i++) lines.push(startX + (i * LANE_WIDTH));
Lines(laneCount, width) ==
  [k \in 1 .. laneCount + 1 |-> StartX(laneCount, width) + (k - 1) * width]

\* useMemo(..., [laneCount]): recomputed when the dependency changed
MemoSeparators(oldCount, newCount, width, old) ==
  IF newCount # oldCount THEN Lines(newCount, width) ELSE old

\* --------------------------------------------------------------------- Init
\* <mesh rotation={[-Math.PI / 2, 0, 0]} position={[0, -0.2, -100]}>
MeshProps ==
  [position |-> [x |-> 0, y |-> -2, z |-> -100 * PosScale],
   rotation |-> <<"-PI/2", 0, 0>>]

\* The state after the first render of Environment: every component has read
\* the store, memoised its buffers and uniforms; the refs are still null.
InitWith(widths) ==
  /\ storeSpeed \in Speeds
  /\ laneWidth \in widths
  /\ storeLaneCount = 3
  /\ frames = 0
  /\ elapsedTime = 0
  /\ delta = 0
  /\ tickSpeed = storeSpeed
  /\ pc = "idle"
  /\ starSpeed = storeSpeed
  /\ materialRef = FALSE
  /\ uTime = 0
  /\ uSpeed = 0
  /\ positions \in {Particle(d) : d \in RandomDraws}
  /\ rendered = <<>>
  /\ prevRendered = <<>>
  /\ gridSpeed = storeSpeed
  /\ meshRef = FALSE
  /\ offsetRef = 0
  /\ mesh = MeshProps
  /\ activeSpeed = None
  /\ prevOffset = 0
  /\ starRead = <<>>
  /\ gridRead = <<>>
  /\ lgLaneCount = storeLaneCount
  /\ separators = Lines(storeLaneCount, laneWidth)
  /\ matRef = FALSE
  /\ sunGroupRef = FALSE
  /\ sunUTime = 0
  /\ sunGroup = [sinArg |-> None, rotationY |-> 0]

Init == InitWith({4 * PosScale})

InitLanes == InitWith(LaneWidths)

\* ------------------------------------------------------------------ actions
\* The gameplay system writes the velocity (at any time, also mid-frame, from
\* another component's frame callback).
SetSpeed ==
  /\ \E v \in Speeds : v # storeSpeed /\ storeSpeed' = v
  /\ UNCHANGED <<storeLaneCount, clockVars, pc, starVars, drawVars, gridVars,
                 laneVars, sunVars>>

\* The gameplay system changes the lane count.
SetLaneCount ==
  /\ pc = "idle"
  /\ \E n \in 1 .. MaxLanes : n # storeLaneCount /\ storeLaneCount' = n
  /\ UNCHANGED <<storeSpeed, clockVars, pc, starVars, drawVars, gridVars,
                 laneVars, sunVars>>

\* React re-renders the subscribed components after a store change, in one
\* commit and never inside a frame callback: StarField and MovingGrid read
\* state.speed again, LaneGuides reads laneCount and re-evaluates its useMemo.
Commit ==
  /\ pc = "idle"
  /\ starSpeed # storeSpeed \/ gridSpeed # storeSpeed \/ lgLaneCount # storeLaneCount
  /\ starSpeed' = storeSpeed
  /\ gridSpeed' = storeSpeed
  /\ lgLaneCount' = storeLaneCount
  /\ laneWidth' = laneWidth
  /\ separators' = MemoSeparators(lgLaneCount, storeLaneCount, laneWidth, separators)
  /\ UNCHANGED <<storeVars, clockVars, pc, materialRef, uTime, uSpeed, positions,
                 starRead, drawVars, meshRef, offsetRef, mesh, activeSpeed,
                 prevOffset, gridRead, sunVars>>

\* The first commit creates the render objects and attaches the refs.
Mount ==
  /\ pc = "idle"
  /\ ~materialRef
  /\ materialRef' = TRUE
  /\ meshRef' = TRUE
  /\ matRef' = TRUE
  /\ sunGroupRef' = TRUE
  /\ UNCHANGED <<storeVars, clockVars, pc, starSpeed, uTime, uSpeed, positions,
                 starRead, drawVars, gridSpeed, offsetRef, mesh, activeSpeed,
                 prevOffset, gridRead, laneVars, sunUTime, sunGroup>>

\* The frame driver starts a frame: the clock advances by the frame's delta.
FrameBegin ==
  /\ pc = "idle"
  /\ frames < MaxFrames
  /\ frames' = frames + 1
  /\ \E d \in Deltas :
       /\ delta' = d
       /\ elapsedTime' = elapsedTime + d
  /\ tickSpeed' = storeSpeed
  /\ pc' = "star"
  /\ starRead' = <<>>
  /\ gridRead' = <<>>
  /\ UNCHANGED <<storeVars, starSpeed, materialRef, uTime, uSpeed, positions,
                 drawVars, gridSpeed, meshRef, offsetRef, mesh, activeSpeed,
                 prevOffset, laneVars, sunVars>>

StarFieldFrameUnguarded ==
  /\ pc = "star"
  /\ pc' = "grid"
  /\ uTime' = elapsedTime
  /\ uSpeed' = StarEffectiveSpeed(starSpeed)
  /\ starRead' = <<starSpeed>>
  /\ UNCHANGED <<storeVars, clockVars, starSpeed, materialRef, positions, drawVars,
                 gridVars, laneVars, sunVars>>

\* StarField: useFrame((state, delta) => { if (materialRef.current) { ... } })
StarFieldFrame ==
  /\ pc = "star"
  /\ pc' = "grid"
  /\ IF materialRef
       THEN /\ uTime' = elapsedTime
            /\ uSpeed' = StarEffectiveSpeed(starSpeed)
            /\ starRead' = <<starSpeed>>
       ELSE UNCHANGED <<uTime, uSpeed, starRead>>
  /\ UNCHANGED <<storeVars, clockVars, starSpeed, materialRef, positions, drawVars,
                 gridVars, laneVars, sunVars>>

\* the speed in the closure of the MovingGrid callback: that of the last render
GridLiveSpeed == storeSpeed
GridClosureSpeed == gridSpeed

\* MovingGrid: useFrame((state, delta) => { if (meshRef.current) { ... } })
MovingGridFrame ==
  /\ pc = "grid"
  /\ pc' = "sun"
  /\ IF meshRef
       THEN /\ gridRead' = <<GridClosureSpeed>>
            /\ activeSpeed' = ActiveSpeed(GridClosureSpeed)
            /\ prevOffset' = offsetRef
            /\ offsetRef' = offsetRef + activeSpeed' * delta
            /\ mesh' = [mesh EXCEPT !.position.z = ZPos(offsetRef')]
       ELSE UNCHANGED <<offsetRef, mesh, activeSpeed, prevOffset, gridRead>>
  /\ UNCHANGED <<storeVars, clockVars, starVars, drawVars, gridSpeed, meshRef,
                 laneVars, sunVars>>

\* RetroSun: useFrame((state) => { ... }); position.y = 30 + sin(sinArg * 0.2)
\* and rotation.y = rotationY * 0.05 are kept as their time arguments.
RetroSunFrame ==
  /\ pc = "sun"
  /\ pc' = "draw"
  /\ sunUTime' = IF matRef THEN elapsedTime ELSE sunUTime
  /\ sunGroup' = IF sunGroupRef
                   THEN [sinArg |-> elapsedTime, rotationY |-> elapsedTime]
                   ELSE sunGroup
  /\ UNCHANGED <<storeVars, clockVars, starVars, drawVars, gridVars, laneVars,
                 matRef, sunGroupRef>>

\* The scene is drawn: the vertex shader runs on the vertex with the uniforms
\* as the callbacks left them (nothing is drawn before the objects exist).
Draw ==
  /\ pc = "draw"
  /\ pc' = "idle"
  /\ IF materialRef
       THEN /\ rendered' = <<VertexShader(positions, uTime, uSpeed)>>
            /\ prevRendered' = rendered
       ELSE UNCHANGED drawVars
  /\ UNCHANGED <<storeVars, clockVars, starVars, gridVars, laneVars, sunVars>>

Next ==
  \/ SetSpeed
  \/ Commit
  \/ Mount
  \/ FrameBegin
  \/ StarFieldFrame
  \/ MovingGridFrame
  \/ RetroSunFrame
  \/ Draw

Spec == Init /\ [][Next]_vars

\* The store and the re-renders alone, with the lane count changing.
NextLanes ==
  \/ SetLaneCount
  \/ SetSpeed
  \/ Commit

SpecLanes == InitLanes /\ [][NextLanes]_vars

\* ------------------------------------------------------------------- claims
\* the effective speed as the specification states it
EffectiveSpeed(velocity) == IF velocity > 0 THEN velocity ELSE 5 * SpeedScale

\* the vertex has been drawn, and drawn before that
Drawn == rendered # <<>>
DrawnBefore == prevRendered # <<>>

\* the MovingGrid callback has run in the frame in progress (or the last one)
GridUpdated == gridRead # <<>>

\* the StarField callback has run in the frame in progress (or the last one)
StarUpdated == starRead # <<>>

\* C1 as stated: after each MovingGrid update the grid offset accumulator is
\* in [0, 10) and the mesh's z position is -100 + gridOffset.
C1_OffsetInCell ==
  GridUpdated =>
    /\ 0 <= offsetRef /\ offsetRef < 10 * PosScale
    /\ mesh.position.z = -100 * PosScale + offsetRef

\* C1 amended: the accumulator is never negative and is not wrapped; its
\* value mod 10 is in [0, 10) and the mesh's z position is
\* -100 + (gridOffset mod 10) after each update.
C1_WrappedOffset ==
  /\ offsetRef >= 0
  /\ offsetRef >= prevOffset
  /\ (offsetRef % (10 * PosScale)) \in 0 .. (10 * PosScale - 1)
  /\ mesh.position.z = -100 * PosScale + (offsetRef % (10 * PosScale))

C1_Witness ==
  /\ GridUpdated
  /\ offsetRef >= 10 * PosScale
  /\ offsetRef % (10 * PosScale) # 0

\* C2: the depth the vertex shader computes for a particle of the star field
\* lies in [-600, 100), whatever the elapsed time and the (positive)
\* effective speed.
C2_DepthInRange ==
  Drawn =>
    /\ rendered[1].uSpeed > 0
    /\ rendered[1].z >= -600 * PosScale
    /\ rendered[1].z < 100 * PosScale

C2_Witness ==
  /\ Drawn
  /\ positions.z < 0
  /\ positions.z + rendered[1].zOffset >= 700 * PosScale

\* C3: a layer that updates in a tick uses the velocity when it is positive
\* and exactly 5.0 otherwise: the uSpeed uniform of the star field and the
\* increment factor of the moving grid; both are strictly positive.
C3_FallbackSpeed ==
  /\ StarUpdated =>
       /\ uSpeed = EffectiveSpeed(starRead[1])
       /\ starRead[1] <= 0 => uSpeed = 5 * SpeedScale
       /\ uSpeed > 0
  /\ GridUpdated =>
       /\ activeSpeed = EffectiveSpeed(gridRead[1])
       /\ gridRead[1] <= 0 => activeSpeed = 5 * SpeedScale
       /\ activeSpeed > 0
       /\ offsetRef - prevOffset = EffectiveSpeed(gridRead[1]) * delta

C3_Witness ==
  /\ StarUpdated
  /\ GridUpdated
  /\ starRead[1] < 0
  /\ uSpeed = 5 * SpeedScale
  /\ activeSpeed = 5 * SpeedScale
  /\ delta > 0

\* C4: the lane separators are those of the lane count LaneGuides rendered
\* with, which is the store's lane count once the re-render is committed:
\* laneCount + 1 entries, separators[i] = -(laneCount * laneWidth) / 2 +
\* i * laneWidth, increasing, symmetric about 0; five lanes of width 4 give
\* -10, -6, -2, 2, 6, 10.
C4_Separators ==
  LET n == lgLaneCount
      w == laneWidth
  IN /\ n >= 1
     /\ Len(separators) = n + 1
     /\ \A i \in 0 .. n : 2 * separators[i + 1] = 2 * i * w - n * w
     /\ \A i \in 1 .. n : separators[i] < separators[i + 1]
     /\ \A i \in 0 .. n : separators[i + 1] = -separators[n - i + 1]
     /\ (n = 5 /\ w = 4 * PosScale) =>
          separators = <<-10 * PosScale, -6 * PosScale, -2 * PosScale,
                         2 * PosScale, 6 * PosScale, 10 * PosScale>>
     /\ (pc = "idle" /\ ~ENABLED Commit) => n = storeLaneCount

C4_Witness ==
  /\ storeLaneCount = 5
  /\ lgLaneCount = 5
  /\ laneWidth = 4 * PosScale
  /\ separators = <<-100, -60, -20, 20, 60, 100>>

\* C5: the vertex shader adds exactly 50 to y for a particle with |x| < 20
\* and -10 < y < 30, leaves y alone outside that zone and on its boundary,
\* and the displacement changes neither x nor the wrapped depth.
C5_TunnelAvoidance ==
  Drawn =>
    LET x == positions.x
        y == positions.y
        inside == /\ -20 * PosScale < x /\ x < 20 * PosScale
                  /\ -10 * PosScale < y /\ y < 30 * PosScale
    IN /\ inside => rendered[1].y = y + 50 * PosScale
       /\ ~inside => rendered[1].y = y
       /\ (x = 20 * PosScale \/ x = -20 * PosScale) => rendered[1].y = y
       /\ (y = -10 * PosScale \/ y = 30 * PosScale) => rendered[1].y = y
       /\ rendered[1].x = x
       /\ rendered[1].z = ((positions.z + rendered[1].zOffset) % (700 * PosScale))
                         - 600 * PosScale

C5_Witness ==
  /\ Drawn
  /\ positions.x = 199
  /\ positions.y = -98
  /\ rendered[1].y = 402

\* C6 as stated: with velocity 5.0 and elapsed time 140 the depth offset is
\* 700 and the rendered depth is initialZ - 600.
C6_ScenarioA ==
  (Drawn /\ rendered[1].uSpeed = 5 * SpeedScale
     /\ rendered[1].uTime = 140 * TimeScale) =>
    /\ rendered[1].zOffset = 700 * PosScale
    /\ rendered[1].z = positions.z - 600 * PosScale

\* C6 amended: with velocity 5.0 and elapsed time 140 the depth offset is 700
\* and the rendered depth is the depth at offset 0, (initialZ mod 700) - 600:
\* initialZ + 100 for initialZ < 0 and -600 for initialZ = 0.
C6_FullCycle ==
  (Drawn /\ rendered[1].uSpeed = 5 * SpeedScale
     /\ rendered[1].uTime = 140 * TimeScale) =>
    /\ rendered[1].zOffset = 700 * PosScale
    /\ rendered[1].z = (positions.z % (700 * PosScale)) - 600 * PosScale
    /\ positions.z < 0 => rendered[1].z = positions.z + 100 * PosScale
    /\ positions.z = 0 => rendered[1].z = -600 * PosScale

C6_Witness ==
  /\ Drawn
  /\ rendered[1].uSpeed = 5 * SpeedScale
  /\ rendered[1].uTime = 140 * TimeScale
  /\ positions.z < 0
  /\ rendered[1].z = positions.z + 100 * PosScale

\* C7: callbacks that run while the layer's render object does not exist
\* write nothing: whatever ticks were skipped, uTime and uSpeed, the grid
\* offset and the mesh transform are as they were constructed.
C7_SkippedTicks ==
  /\ ~materialRef => (uTime = 0 /\ uSpeed = 0 /\ starRead = <<>> /\ rendered = <<>>)
  /\ ~meshRef => (offsetRef = 0 /\ mesh = MeshProps /\ gridRead = <<>>)

C7_Witness ==
  /\ ~materialRef
  /\ ~meshRef
  /\ pc = "idle"
  /\ frames >= 2
  /\ elapsedTime > 0

\* C8: in every tick the StarField and the MovingGrid callbacks use the same
\* velocity, also when the gameplay system writes the velocity between or
\* during ticks; and no step of the renderer writes the velocity.
C8_SameVelocity ==
  /\ [](StarUpdated /\ GridUpdated => starRead[1] = gridRead[1])
  /\ [][storeSpeed' # storeSpeed =>
          UNCHANGED <<clockVars, pc, starVars, drawVars, gridVars, laneVars, sunVars>>]_vars

C8_Witness ==
  /\ pc = "sun"
  /\ StarUpdated
  /\ GridUpdated
  /\ tickSpeed = starSpeed
  /\ storeSpeed # tickSpeed
  /\ starRead[1] = tickSpeed

\* C9: a MovingGrid tick adds effectiveSpeed * deltaTime to the grid offset
\* and sets the mesh's z to -100 + (gridOffset mod 10), which lies in
\* [-100, -90); from offset 0 with velocity 0 and deltaTime 1.0 the offset
\* becomes 5 and z becomes -95; x, y and the rotation are not changed.
C9_GridTick ==
  [][(pc = "grid" /\ pc' = "sun" /\ meshRef) =>
       /\ offsetRef' = offsetRef + EffectiveSpeed(gridSpeed) * delta
       /\ mesh'.position.z = -100 * PosScale + (offsetRef' % (10 * PosScale))
       /\ mesh'.position.z >= -100 * PosScale
       /\ mesh'.position.z < -90 * PosScale
       /\ (offsetRef = 0 /\ gridSpeed = 0 /\ delta = TimeScale) =>
            (offsetRef' = 5 * PosScale /\ mesh'.position.z = -95 * PosScale)
       /\ mesh'.position.x = mesh.position.x
       /\ mesh'.position.y = mesh.position.y
       /\ mesh'.rotation = mesh.rotation]_vars

C9_Witness ==
  /\ pc = "sun"
  /\ meshRef
  /\ gridRead[1] = 0
  /\ delta = TimeScale
  /\ prevOffset = 0
  /\ offsetRef = 5 * PosScale
  /\ mesh.position.z = -95 * PosScale

\* C10: of two successive draws of a particle, one with a depth offset 700
\* larger than the other renders the same depth (offset 700 reproduces
\* offset 0), and while the depth does not wrap it grows by exactly the
\* growth of the offset.
C10_Periodic ==
  (Drawn /\ DrawnBefore) =>
    LET d0 == prevRendered[1].zOffset
        d1 == rendered[1].zOffset
    IN /\ d0 >= 0 /\ d1 >= 0
       /\ d1 = d0 + 700 * PosScale => rendered[1].z = prevRendered[1].z
       /\ (d0 = 0 /\ d1 = 700 * PosScale) => rendered[1].z = prevRendered[1].z
       /\ (d1 >= d0 /\ prevRendered[1].z + (d1 - d0) < 100 * PosScale) =>
            rendered[1].z = prevRendered[1].z + (d1 - d0)

C10_Witness ==
  /\ Drawn
  /\ DrawnBefore
  /\ prevRendered[1].zOffset > 0
  /\ rendered[1].zOffset = prevRendered[1].zOffset + 700 * PosScale
  /\ positions.z + prevRendered[1].zOffset < 0

====
